---- MODULE Spec2Model ----
(***************************************************************************)
(* A model of the queens-map-generator core:                               *)
(*   - solver_cy.pyx   : count_valid_solutions / _backtrack / solve        *)
(*   - generator_cy.pyx: random_n_queens, generate_regions,                *)
(*                       all_regions_connected, generate_map,              *)
(*                       are_grids_same                                    *)
(* Rows, columns and region ids are 0-based as in the source; a Python     *)
(* list of length n is a function over 0..n-1.                             *)
(***************************************************************************)
EXTENDS Integers, Sequences, FiniteSets, TLC

(***************************************************************************)
(* Bounds of the model.                                                    *)
(***************************************************************************)
\* Largest board size given to the counter.
MaxN == 4
\* Largest threshold of the contiguous threshold range given to the counter.
MaxThreshold == 2

(***************************************************************************)
(* Program constants.                                                      *)
(***************************************************************************)
\* Largest board size and largest region id of the grids given to
\* all_regions_connected and are_grids_same.
MaxGridN == 3
MaxId == 2

\* Largest board size given to generate_map and generate_regions.
MaxBoard == 4
\* Largest board size given to random_n_queens called on its own.
MaxQueens == 4
\* Largest board size on which every outcome of the flood fill's draws is
\* followed, and on which generate_regions is given every list of columns.
MaxFullBoard == 3
\* On larger boards, the largest number of successful claims of the flood fill.
MaxClaims == 0

\* Length of the used_blocks table.
CAP == 128
\* Python's None, where the source holds it in a list of ints.
None == -1
\* The last_col passed for row 0.
NoLastCol == -100

VARIABLES
    \* ---- solver_cy.pyx ----
    grid_arr,       \* the n x n region grid (memory view of color_grid)
    threshold,      \* the caller's threshold
    solve_name,     \* the name given to solve
    stack,          \* the call stack of _backtrack, innermost frame last
    used_blocks,    \* the set of indices of used_blocks[] holding True
    ret,            \* the value returned by the frame that just returned: <<>> or <<v>>
    cpc,            \* "running", "counted", "solved", "crashed"
    result,         \* what count_valid_solutions returned: <<>> or <<count>>
    solve_result,   \* what solve returned: <<>> or <<record>>
    oob,            \* TRUE once used_blocks[] was indexed outside 0..CAP-1
    \* ---- generator_cy.pyx ----
    case_number,    \* generate_map's board size n
    gpc,            \* control position of generate_map
    qstack,         \* the call stack of the generator's _backtrack
    solution,       \* random_n_queens' working list, None where unset
    cols,           \* used columns
    diag1,          \* used row - col values
    diag2,          \* used row + col values
    sol,            \* the one-element list sol: <<sol[0]>>
    qret,           \* value returned by the _backtrack frame that just returned
    queen_solution, \* what random_n_queens returned: <<>> before, <<value>> after
    regions,        \* generate_regions' grid, None where unassigned
    region_ids,     \* the shuffled list of region ids
    queue,          \* the flood-fill deque of <<i, j, rid>>
    scan,           \* row-major index of the cell the post-processing loops are at
    enqueued,       \* history: every cell appended to the deque so far, in order
    fallback,       \* history: TRUE once line 135 gave a cell a random id
    map_result,     \* what generate_map returned: <<>> or <<record>>
    \* ---- all_regions_connected and are_grids_same called on their own ----
    g1,             \* the grid given to all_regions_connected, and are_grids_same's g1
    g2,             \* are_grids_same's g2
    tpc,            \* "start", "checked" (all_regions_connected returned), "compared"
    connected,      \* what all_regions_connected returned: <<>> or <<bool>>
    same            \* what are_grids_same returned: <<>> or <<bool>>

countVars == <<grid_arr, threshold, solve_name, stack, used_blocks, ret, cpc, result,
               solve_result, oob>>

queenVars == <<qstack, solution, cols, diag1, diag2, sol, qret, queen_solution>>

regionVars == <<regions, region_ids, queue, scan, enqueued, fallback>>

genVars == <<case_number, gpc, queenVars, regionVars, map_result>>

gridVars == <<g1, g2, tpc, connected, same>>

vars == <<countVars, genVars, gridVars>>

(***************************************************************************)
(* Helpers on Python lists and C integers.                                 *)
(***************************************************************************)
Range(k) == 0 .. (k - 1)

RECURSIVE Pow2(_)
Pow2(k) == IF k = 0 THEN 1 ELSE 2 * Pow2(k - 1)

\* used_cols & (1 << col)
TestBit(mask, col) == ((mask \div Pow2(col)) % 2) = 1

\* used_cols | (1 << col); col < n, so the uint32_t mask stays below 2^n
SetBit(mask, col) == IF TestBit(mask, col) THEN mask ELSE mask + Pow2(col)

\* len(color_grid)
Len2(g) == Cardinality(DOMAIN g)

(***************************************************************************)
(* solver_cy.pyx                                                           *)
(***************************************************************************)
ABS(x) == IF x >= 0 THEN x ELSE -x

AdjacentSkipSameColumnOnly(row, last_col, col) == row > 0 /\ ABS(last_col - col) < 1

\* The adjacency test of line 60: the candidate column is skipped.
AdjacentSkip(row, last_col, col) == row > 0 /\ ABS(last_col - col) <= 1

\* The column test of line 57.
ColumnSkip(used_cols, col) == TestBit(used_cols, col)

\* The region test of line 65, for an id inside the table.
RegionSkipNever(blocks, block_id) == FALSE

RegionSkip(blocks, block_id) == block_id \in blocks

\* Line 69: used_blocks[block_id] = True.
Mark(blocks, block_id) == blocks \cup {block_id}

UnmarkNothing(blocks, block_id) == blocks

\* Line 77: used_blocks[block_id] = False.
Unmark(blocks, block_id) == blocks \ {block_id}

PruneAtThreshold(count, thr) == count >= thr

\* The prune test of line 80.
Prune(count, thr) == count > thr

\* A frame of _backtrack: its parameters and its locals count and col.
\* `returned` is the history of the frame: the values cnt its recursive calls
\* have returned so far, in order.
Frame(row, used_cols, last_col, thr) ==
    [row |-> row, used_cols |-> used_cols, last_col |-> last_col,
     threshold |-> thr, count |-> 0, col |-> 0, returned |-> <<>>]

Top == stack[Len(stack)]
N == Len2(grid_arr)
InTable(id) == id \in Range(CAP)

\* The region ids of grid g, as a set.
IdsOf(g) == { g[i][j] : i \in DOMAIN g, j \in DOMAIN g }

\* Every id of g indexes used_blocks[] inside the table.
InRange(g) == \A id \in IdsOf(g) : InTable(id)

(***************************************************************************)
(* The grids and thresholds given to the counter.  A grid is built row by  *)
(* row, each row following one of a few patterns; the family holds the     *)
(* all-distinct grid, the single-region grid, row, column and diagonal     *)
(* partitions, their mixtures, and rows holding an id outside the table.   *)
(***************************************************************************)
RowPatterns == {"uniq", "row", "col", "zero", "diag", "over", "under"}

PatternId(p, i, j, n) ==
    CASE p = "uniq"  -> i * n + j
      [] p = "row"   -> i
      [] p = "col"   -> j
      [] p = "zero"  -> 0
      [] p = "diag"  -> (i + j) % n
      [] p = "over"  -> IF j = 0 THEN CAP ELSE j
      [] p = "under" -> IF j = n - 1 THEN -1 ELSE j

GridOf(n, pats) == [i \in Range(n) |-> [j \in Range(n) |-> PatternId(pats[i], i, j, n)]]

\* Boards up to MaxN with every mixture of row patterns, and the board of MaxN + 1
\* with one pattern on all rows.
CounterGrids ==
    UNION { { GridOf(n, pats) : pats \in [Range(n) -> RowPatterns] } : n \in 1 .. MaxN }
    \cup { GridOf(MaxN + 1, [i \in Range(MaxN + 1) |-> p]) : p \in RowPatterns }

Thresholds == (-1 .. MaxThreshold) \cup {10}

Names == {"map-a", "map-b"}

(***************************************************************************)
(* count_valid_solutions: the state when _backtrack(0, n, 0, -100, ...) is *)
(* entered, used_blocks[] cleared.                                         *)
(***************************************************************************)
\* The generator is not running.
IdleGen ==
    /\ case_number = 0
    /\ gpc = "idle"
    /\ qstack = <<>>
    /\ solution = <<>>
    /\ cols = {}
    /\ diag1 = {}
    /\ diag2 = {}
    /\ sol = <<None>>
    /\ qret = <<>>
    /\ queen_solution = <<>>
    /\ regions = <<>>
    /\ region_ids = <<>>
    /\ queue = <<>>
    /\ scan = 0
    /\ enqueued = <<>>
    /\ fallback = FALSE
    /\ map_result = <<>>

\* all_regions_connected and are_grids_same are not running on their own.
IdleGrids ==
    /\ g1 = <<>>
    /\ g2 = <<>>
    /\ tpc = "idle"
    /\ connected = <<>>
    /\ same = <<>>

InitCount ==
    /\ IdleGen
    /\ IdleGrids
    /\ grid_arr \in CounterGrids
    /\ threshold \in Thresholds
    /\ solve_name \in Names
    /\ stack = <<Frame(0, 0, NoLastCol, threshold)>>
    /\ used_blocks = {}
    /\ ret = <<>>
    /\ cpc = "running"
    /\ result = <<>>
    /\ solve_result = <<>>
    /\ oob = FALSE

\* The loop of _backtrack is at candidate column Top.col of row Top.row.
AtCandidate ==
    /\ cpc = "running"
    /\ ret = <<>>
    /\ stack # <<>>
    /\ Top.row < N
    /\ Top.col < N

BlockId == grid_arr[Top.row][Top.col]

Pop == SubSeq(stack, 1, Len(stack) - 1)

NextColumn == [stack EXCEPT ![Len(stack)].col = @ + 1]

RecurseFullBudget ==
    Append(stack, Frame(Top.row + 1, SetBit(Top.used_cols, Top.col), Top.col,
                        Top.threshold))

\* Lines 69-73: mark the region and call _backtrack for the next row.
Recurse ==
    Append(stack, Frame(Top.row + 1, SetBit(Top.used_cols, Top.col), Top.col,
                        Top.threshold - Top.count))

\* Line 51-52: all rows are filled, the frame returns 1.
BaseCase ==
    /\ cpc = "running"
    /\ ret = <<>>
    /\ stack # <<>>
    /\ Top.row = N
    /\ stack' = Pop
    /\ ret' = <<1>>
    /\ UNCHANGED <<genVars, gridVars, grid_arr, threshold, solve_name, used_blocks, cpc, result, solve_result, oob>>

\* Lines 57-66: the candidate column is skipped.
Skip ==
    /\ AtCandidate
    /\ \/ ColumnSkip(Top.used_cols, Top.col)
       \/ AdjacentSkip(Top.row, Top.last_col, Top.col)
       \/ (InTable(BlockId) /\ RegionSkip(used_blocks, BlockId))
    /\ stack' = NextColumn
    /\ UNCHANGED <<genVars, gridVars, grid_arr, threshold, solve_name, used_blocks, ret, cpc, result, solve_result, oob>>

\* Lines 63-73: the candidate passes the three tests.
Descend ==
    /\ AtCandidate
    /\ ~ColumnSkip(Top.used_cols, Top.col)
    /\ ~AdjacentSkip(Top.row, Top.last_col, Top.col)
    /\ InTable(BlockId)
    /\ ~RegionSkip(used_blocks, BlockId)
    /\ used_blocks' = Mark(used_blocks, BlockId)
    /\ stack' = Recurse
    /\ UNCHANGED <<genVars, gridVars, grid_arr, threshold, solve_name, ret, cpc, result, solve_result, oob>>

\* Lines 63-73 with block_id outside 0..CAP-1: boundscheck is off and
\* used_blocks is a C array, so the read of used_blocks[block_id] is undefined:
\* the process may die, or the read may yield either truth value; when it
\* yields False the write of line 69 lands outside the table.
StrayAccess ==
    /\ AtCandidate
    /\ ~ColumnSkip(Top.used_cols, Top.col)
    /\ ~AdjacentSkip(Top.row, Top.last_col, Top.col)
    /\ ~InTable(BlockId)
    /\ oob' = TRUE
    /\ \/ /\ cpc' = "crashed"
          /\ UNCHANGED <<stack>>
       \/ /\ stack' = NextColumn
          /\ UNCHANGED <<cpc>>
       \/ /\ stack' = Recurse
          /\ UNCHANGED <<cpc>>
    /\ UNCHANGED <<genVars, gridVars, grid_arr, threshold, solve_name, used_blocks, ret, result, solve_result>>

\* Line 83: the loop is over, the frame returns its count.
LoopEnd ==
    /\ cpc = "running"
    /\ ret = <<>>
    /\ stack # <<>>
    /\ Top.row < N
    /\ Top.col = N
    /\ stack' = Pop
    /\ ret' = <<Top.count>>
    /\ UNCHANGED <<genVars, gridVars, grid_arr, threshold, solve_name, used_blocks, cpc, result, solve_result, oob>>

\* Lines 74-81: the recursive call returned cnt into the calling frame.
Resume ==
    /\ cpc = "running"
    /\ ret # <<>>
    /\ stack # <<>>
    /\ LET cnt   == ret[1]
           count == Top.count + cnt
       IN /\ used_blocks' = Unmark(used_blocks, BlockId)
          /\ IF Prune(count, Top.threshold)
                THEN /\ stack' = Pop
                     /\ ret' = <<count>>
                ELSE /\ stack' = [stack EXCEPT ![Len(stack)].count = count,
                                               ![Len(stack)].col = @ + 1,
                                               ![Len(stack)].returned = Append(@, cnt)]
                     /\ ret' = <<>>
    /\ UNCHANGED <<genVars, gridVars, grid_arr, threshold, solve_name, cpc, result, solve_result, oob>>

\* Lines 118-119: the outermost _backtrack returned.
ReturnCount ==
    /\ cpc = "running"
    /\ ret # <<>>
    /\ stack = <<>>
    /\ result' = ret
    /\ cpc' = "counted"
    /\ UNCHANGED <<genVars, gridVars, grid_arr, threshold, solve_name, stack, used_blocks, ret, solve_result, oob>>

SolveRecordSolvableAboveOne(name, count) ==
    [name |-> name, solvable |-> count > 1, number_solution |-> count,
     number_possibility |-> "None"]

\* Lines 143-147: the record solve builds from the count.
SolveRecord(name, count) ==
    [name |-> name, solvable |-> count > 0, number_solution |-> count,
     number_possibility |-> "None"]

Solve ==
    /\ cpc = "counted"
    /\ solve_result' = <<SolveRecord(solve_name, result[1])>>
    /\ cpc' = "solved"
    /\ UNCHANGED <<genVars, gridVars, grid_arr, threshold, solve_name, stack, used_blocks, ret, result, oob>>

NextCount ==
    \/ BaseCase
    \/ Skip
    \/ Descend
    \/ StrayAccess
    \/ LoopEnd
    \/ Resume
    \/ ReturnCount
    \/ Solve

SpecCount == InitCount /\ [][NextCount]_vars

(***************************************************************************)
(* count_valid_solutions as a function of its arguments, for the places    *)
(* that use its value: _backtrack with its loop over the columns.  The     *)
(* table is passed down with the mark of line 69 and the caller goes on    *)
(* with its own table, which is what the unmark of line 77 restores.       *)
(***************************************************************************)
RECURSIVE backtrack(_, _, _, _, _, _), backtrack_loop(_, _, _, _, _, _, _, _)
\* Lines 47-52.
backtrack(grid, row, used_cols, last_col, thr, blocks) ==
    IF row = Len2(grid)
       THEN 1
       ELSE backtrack_loop(grid, row, used_cols, last_col, thr, blocks, 0, 0)

\* Lines 55-83: the loop at column col with the running total count.
backtrack_loop(grid, row, used_cols, last_col, thr, blocks, col, count) ==
    IF col = Len2(grid)
       THEN count
       ELSE IF \/ ColumnSkip(used_cols, col)
               \/ AdjacentSkip(row, last_col, col)
               \/ RegionSkip(blocks, grid[row][col])
               THEN backtrack_loop(grid, row, used_cols, last_col, thr, blocks, col + 1, count)
               ELSE LET cnt == backtrack(grid, row + 1, SetBit(used_cols, col), col,
                                         thr - count, Mark(blocks, grid[row][col]))
                    IN IF Prune(count + cnt, thr)
                          THEN count + cnt
                          ELSE backtrack_loop(grid, row, used_cols, last_col, thr, blocks,
                                              col + 1, count + cnt)

\* Lines 101-119, for a grid whose ids index the table.
count_valid_solutions(color_grid, thr) == backtrack(color_grid, 0, 0, NoLastCol, thr, {})

(***************************************************************************)
(* The extended ruleset, stated on placements and independent of the       *)
(* search: a placement is one column per row.                              *)
(***************************************************************************)
Placements(n) == [Range(n) -> Range(n)]

DistinctColumns(p) == \A r1, r2 \in DOMAIN p : r1 # r2 => p[r1] # p[r2]

AdjacentRowsApart(p) ==
    \A r \in DOMAIN p : (r + 1) \in DOMAIN p =>
        (p[r] - p[r + 1] > 1 \/ p[r + 1] - p[r] > 1)

DistinctRegions(g, p) == \A r1, r2 \in DOMAIN p : r1 # r2 => g[r1][p[r1]] # g[r2][p[r2]]

\* T: the number of placements on g satisfying the extended ruleset.
TrueCount(g) ==
    Cardinality({ p \in Placements(Len2(g)) :
                    DistinctColumns(p) /\ AdjacentRowsApart(p) /\ DistinctRegions(g, p) })

Counted == cpc \in {"counted", "solved"}

\* C1: for a grid whose ids index the table and a threshold >= 1, the count
\* returned equals T when T <= threshold and exceeds the threshold otherwise;
\* on the 4 x 4 grid of 16 distinct ids with threshold 10 it is the number of
\* permutations with adjacent rows more than one column apart.
C1_CountExactOrAbove ==
    (Counted /\ threshold >= 1 /\ InRange(grid_arr)) =>
        /\ IF TrueCount(grid_arr) <= threshold
              THEN result[1] = TrueCount(grid_arr)
              ELSE result[1] > threshold
        /\ (N = 4 /\ Cardinality(IdsOf(grid_arr)) = 16 /\ threshold = 10) =>
              result[1] = Cardinality({ p \in Placements(4) :
                                          DistinctColumns(p) /\ AdjacentRowsApart(p) })

\* C1 witness: a call returned with more placements than the threshold.
C1_Witness ==
    /\ cpc = "counted"
    /\ threshold >= 1
    /\ InRange(grid_arr)
    /\ TrueCount(grid_arr) > threshold
    /\ result[1] > threshold

\* C2: no count is returned for a threshold <= 0 (the call is rejected with a
\* validation error); stated on grids whose ids all index the table.
C2_NonPositiveThresholdRejected ==
    (threshold <= 0 /\ InRange(grid_arr)) => (result = <<>> /\ solve_result = <<>>)

\* C3: with a region id outside 0..CAP-1 in the grid, used_blocks[] is never
\* indexed outside the table and no count is returned; stated for thresholds
\* >= 1.
C3_OutOfRangeIdIsFatal ==
    (~InRange(grid_arr) /\ threshold >= 1) =>
        (~oob /\ result = <<>> /\ solve_result = <<>>)

\* C10: on a grid with fewer than n distinct region ids (all inside the table)
\* and a threshold >= 1, the count is 0 and solve reports solvable = FALSE with
\* number_solution = 0.
C10_FewRegionsCountZero ==
    (Counted /\ threshold >= 1 /\ InRange(grid_arr)
        /\ Cardinality(IdsOf(grid_arr)) < N) =>
        /\ result[1] = 0
        /\ cpc = "solved" =>
              /\ solve_result[1].solvable = FALSE
              /\ solve_result[1].number_solution = 0

\* C10 witness: solve returned for the 4 x 4 grid whose 16 cells share one id.
C10_Witness ==
    /\ cpc = "solved"
    /\ N = 4
    /\ Cardinality(IdsOf(grid_arr)) = 1
    /\ InRange(grid_arr)
    /\ threshold = 10
    /\ solve_result[1].solvable = FALSE

(***************************************************************************)
(* generator_cy.pyx: random_n_queens                                       *)
(***************************************************************************)
\* A frame of the generator's _backtrack.  cols_list is shuffled when the
\* frame is entered and then read front to back: `remaining` holds the
\* columns the loop has not drawn yet, and each draw may be any of them.
\* col is the column of the iteration in progress.
QFrame(row, n) == [row |-> row, remaining |-> Range(n), col |-> None]

QTop == qstack[Len(qstack)]

QPop == SubSeq(qstack, 1, Len(qstack) - 1)

\* Line 22: the candidate conflicts with a placed queen.
ConflictColumnOnly(row, col) == col \in cols

Conflict(row, col) ==
    col \in cols \/ (row - col) \in diag1 \/ (row + col) \in diag2

\* Lines 48-53: random_n_queens(n) has built its lists and sets and calls
\* _backtrack(0, ...).
QueensEntered(n) ==
    /\ qstack = <<QFrame(0, n)>>
    /\ solution = [i \in Range(n) |-> None]
    /\ cols = {}
    /\ diag1 = {}
    /\ diag2 = {}
    /\ sol = <<>>
    /\ qret = <<>>
    /\ queen_solution = <<>>

\* generate_regions and generate_map hold nothing yet.
RegionsEmpty ==
    /\ regions = <<>>
    /\ region_ids = <<>>
    /\ queue = <<>>
    /\ scan = 0
    /\ enqueued = <<>>
    /\ fallback = FALSE

\* The counter is not running.
IdleCount ==
    /\ grid_arr = <<>>
    /\ threshold = 1
    /\ solve_name = ""
    /\ stack = <<>>
    /\ used_blocks = {}
    /\ ret = <<>>
    /\ cpc = "idle"
    /\ result = <<>>
    /\ solve_result = <<>>
    /\ oob = FALSE

\* generate_map(case_number) is at line 257, in its first attempt.
InitGen ==
    /\ IdleCount
    /\ IdleGrids
    /\ case_number \in 0 .. MaxBoard
    /\ gpc = "queens"
    /\ QueensEntered(case_number)
    /\ RegionsEmpty
    /\ map_result = <<>>

\* Lines 13-15: every row is filled; the solution is copied into sol[0].
QBase ==
    /\ gpc = "queens"
    /\ qret = <<>>
    /\ qstack # <<>>
    /\ QTop.row = case_number
    /\ sol' = <<solution>>
    /\ qstack' = QPop
    /\ qret' = <<TRUE>>
    /\ UNCHANGED <<countVars, gridVars, case_number, gpc, solution, cols, diag1, diag2,
                   queen_solution, regionVars, map_result>>

\* Lines 20-23: the next column of cols_list conflicts and is passed over.
QConflict ==
    /\ gpc = "queens"
    /\ qret = <<>>
    /\ qstack # <<>>
    /\ QTop.row < case_number
    /\ \E col \in QTop.remaining :
          /\ Conflict(QTop.row, col)
          /\ qstack' = [qstack EXCEPT ![Len(qstack)].remaining = @ \ {col},
                                      ![Len(qstack)].col = col]
    /\ UNCHANGED <<countVars, gridVars, case_number, gpc, solution, cols, diag1, diag2, sol,
                   qret, queen_solution, regionVars, map_result>>

\* Lines 20-30: the next column of cols_list is free; the queen is placed and
\* _backtrack is called for the next row.
QPlace ==
    /\ gpc = "queens"
    /\ qret = <<>>
    /\ qstack # <<>>
    /\ QTop.row < case_number
    /\ \E col \in QTop.remaining :
          /\ ~Conflict(QTop.row, col)
          /\ solution' = [solution EXCEPT ![QTop.row] = col]
          /\ cols' = cols \cup {col}
          /\ diag1' = diag1 \cup {QTop.row - col}
          /\ diag2' = diag2 \cup {QTop.row + col}
          /\ qstack' = Append([qstack EXCEPT ![Len(qstack)].remaining = @ \ {col},
                                             ![Len(qstack)].col = col],
                              QFrame(QTop.row + 1, case_number))
    /\ UNCHANGED <<countVars, gridVars, case_number, gpc, sol, qret, queen_solution,
                   regionVars, map_result>>

\* Lines 30-35: the recursive call returned into the calling frame.
QResume ==
    /\ gpc = "queens"
    /\ qret # <<>>
    /\ qstack # <<>>
    /\ IF qret[1]
          THEN /\ qstack' = QPop
               /\ UNCHANGED <<qret, cols, diag1, diag2>>
          ELSE /\ cols' = cols \ {QTop.col}
               /\ diag1' = diag1 \ {QTop.row - QTop.col}
               /\ diag2' = diag2 \ {QTop.row + QTop.col}
               /\ qret' = <<>>
               /\ UNCHANGED qstack
    /\ UNCHANGED <<countVars, gridVars, case_number, gpc, solution, sol, queen_solution,
                   regionVars, map_result>>

\* Line 36: cols_list is exhausted.
QLoopEnd ==
    /\ gpc = "queens"
    /\ qret = <<>>
    /\ qstack # <<>>
    /\ QTop.row < case_number
    /\ QTop.remaining = {}
    /\ qstack' = QPop
    /\ qret' = <<FALSE>>
    /\ UNCHANGED <<countVars, gridVars, case_number, gpc, solution, cols, diag1, diag2, sol,
                   queen_solution, regionVars, map_result>>

QueensValueWorkingList == <<solution>>

\* What random_n_queens returns (line 54): sol[0], <<>> standing for None.
QueensValue == sol

\* Lines 53-54 and 257: random_n_queens returns sol[0] to generate_map.
QReturn ==
    /\ gpc = "queens"
    /\ qret # <<>>
    /\ qstack = <<>>
    /\ queen_solution' = QueensValue
    /\ gpc' = "regions"
    /\ UNCHANGED <<countVars, gridVars, case_number, qstack, solution, cols, diag1, diag2, sol,
                   qret, regionVars, map_result>>

(***************************************************************************)
(* generator_cy.pyx: generate_regions                                      *)
(***************************************************************************)
\* The orders random.shuffle can leave list(range(n)) in.
Shuffles(n) == { f \in [Range(n) -> Range(n)] : \A a, b \in Range(n) : a # b => f[a] # f[b] }

\* The grid's cells, and the row-major order of the nested loops over them.
Cells(n) == Range(n) \X Range(n)

RowMajor(c, n) == c[1] * n + c[2]

\* Lines 112-115 and 126-129: the four neighbours, in the order of the loop,
\* that lie on the board.
Dirs == << <<-1, 0>>, <<1, 0>>, <<0, -1>>, <<0, 1>> >>

OnBoard(c, n) == c[1] >= 0 /\ c[1] < n /\ c[2] >= 0 /\ c[2] < n

NeighboursWithDiagonal(i, j, n) ==
    LET all == << <<i - 1, j>>, <<i + 1, j>>, <<i, j - 1>>, <<i, j + 1>>, <<i + 1, j + 1>> >>
        Keep(c) == OnBoard(c, n)
    IN SelectSeq(all, Keep)

Neighbours(i, j, n) ==
    LET all == [d \in 1 .. 4 |-> <<i + Dirs[d][1], j + Dirs[d][2]>>]
        Keep(c) == OnBoard(c, n)
    IN SelectSeq(all, Keep)

SeqToSet(q) == { q[k] : k \in 1 .. Len(q) }

\* Lines 78-102: the grid with the queen cells seeded, and the deque of seeds
\* in the insertion order of region_seeds.
SeededGrid(n, qs, ids) ==
    [i \in Range(n) |-> [j \in Range(n) |-> IF j = qs[i] THEN ids[i] ELSE None]]

SeedQueue(n, qs, ids) == [k \in 1 .. n |-> <<k - 1, qs[k - 1], ids[k - 1]>>]

\* Line 87 subscripts queen_solution: None raises TypeError when the loop body
\* runs at all.
Seed ==
    /\ gpc = "regions"
    /\ IF queen_solution = <<>> /\ case_number > 0
          THEN /\ gpc' = "raised"
               /\ UNCHANGED regionVars
          ELSE LET qs == IF queen_solution = <<>> THEN <<>> ELSE queen_solution[1]
               IN \E ids \in Shuffles(case_number) :
                    /\ region_ids' = ids
                    /\ regions' = SeededGrid(case_number, qs, ids)
                    /\ queue' = SeedQueue(case_number, qs, ids)
                    /\ scan' = 0
                    /\ enqueued' = [k \in 1 .. case_number |-> <<k - 1, qs[k - 1]>>]
                    /\ fallback' = FALSE
                    /\ gpc' = "flood"
    /\ UNCHANGED <<countVars, gridVars, case_number, queenVars, map_result>>

IsUnassignedOrTaken(g, c) == TRUE

PopLeftKeeps(q) == q

\* Line 107: the deque after queue.popleft().
PopLeft(q) == Tail(q)

\* Lines 116 and 124: regions[i][j] is None.
IsUnassigned(g, c) == g[c[1]][c[2]] = None

\* Lines 106-119: one cell is taken from the deque; each unassigned neighbour
\* is claimed or not (random.random() < expansion_prob[rid], a probability in
\* [0.3, 0.5], can go either way) and the claimed ones are enqueued.
Claimed(g, n) == Cardinality({ c \in Cells(n) : g[c[1]][c[2]] # None }) - n

Claims(free, g, n) ==
    { s \in SUBSET free : n <= MaxFullBoard \/ Claimed(g, n) + Cardinality(s) <= MaxClaims }

Flood ==
    /\ gpc = "flood"
    /\ queue # <<>>
    /\ LET current == Head(queue)
           rid     == current[3]
           nbrs    == Neighbours(current[1], current[2], case_number)
           Free(c) == IsUnassigned(regions, c)
           free    == SeqToSet(SelectSeq(nbrs, Free))
       IN \E claimed \in Claims(free, regions, case_number) :
            LET Taken(c)   == c \in claimed
                Entry(c)   == <<c[1], c[2], rid>>
                taken      == SelectSeq(nbrs, Taken)
            IN /\ regions' = [i \in Range(case_number) |-> [j \in Range(case_number) |->
                                 IF <<i, j>> \in claimed THEN rid ELSE regions[i][j]]]
               /\ queue' = PopLeft(queue) \o [k \in 1 .. Len(taken) |-> Entry(taken[k])]
               /\ enqueued' = enqueued \o taken
    /\ UNCHANGED <<countVars, gridVars, case_number, gpc, queenVars, region_ids, scan,
                   fallback, map_result>>

\* Line 106: the deque is empty, the fill is over.
FloodDone ==
    /\ gpc = "flood"
    /\ queue = <<>>
    /\ gpc' = "post"
    /\ UNCHANGED <<countVars, gridVars, case_number, queenVars, regionVars, map_result>>

\* The cells the loops of lines 122-124 have still to visit, and among them
\* the unassigned ones.
Unassigned(g, n, from) == { c \in Cells(n) : RowMajor(c, n) >= from /\ g[c[1]][c[2]] = None }

\* The first unassigned cell the loops come to.
FirstUnassigned(g, n, from) ==
    CHOOSE c \in Unassigned(g, n, from) :
        \A d \in Unassigned(g, n, from) : RowMajor(c, n) <= RowMajor(d, n)

\* Lines 125-131: the ids of the assigned neighbours of cell c.
NeighbourIds(g, c, n) ==
    { g[d[1]][d[2]] : d \in { e \in SeqToSet(Neighbours(c[1], c[2], n)) : g[e[1]][e[2]] # None } }

PostChoicesNoFallback(g, c, n, ids) ==
    IF NeighbourIds(g, c, n) # {} THEN NeighbourIds(g, c, n) ELSE {None}

\* Lines 132-135: the ids random.choice may give an unassigned cell.
PostChoices(g, c, n, ids) ==
    IF NeighbourIds(g, c, n) # {}
       THEN NeighbourIds(g, c, n)
       ELSE { ids[k] : k \in DOMAIN ids }

\* Lines 122-135: the loops reach the next unassigned cell and assign it.
PostProcess ==
    /\ gpc = "post"
    /\ Unassigned(regions, case_number, scan) # {}
    /\ LET c == FirstUnassigned(regions, case_number, scan)
       IN /\ \E rid \in PostChoices(regions, c, case_number, region_ids) :
               regions' = [regions EXCEPT ![c[1]][c[2]] = rid]
          /\ scan' = RowMajor(c, case_number) + 1
          /\ fallback' = (fallback \/ NeighbourIds(regions, c, case_number) = {})
    /\ UNCHANGED <<countVars, gridVars, case_number, gpc, queenVars, region_ids, queue,
                   enqueued, map_result>>

\* Lines 136 and 258: the loops are over; generate_regions returns regions.
RegionsReturn ==
    /\ gpc = "post"
    /\ Unassigned(regions, case_number, scan) = {}
    /\ scan' = case_number * case_number
    /\ gpc' = "validate"
    /\ UNCHANGED <<countVars, gridVars, case_number, queenVars, regions, region_ids, queue,
                   enqueued, fallback, map_result>>

(***************************************************************************)
(* generator_cy.pyx: all_regions_connected                                 *)
(***************************************************************************)
CellsOf(grid, rid) == { c \in Cells(Len2(grid)) : grid[c[1]][c[2]] = rid }

\* Lines 194-200: the first cell of region rid in row-major order.
StartCell(grid, rid) ==
    CHOOSE c \in CellsOf(grid, rid) :
        \A d \in CellsOf(grid, rid) : RowMajor(c, Len2(grid)) <= RowMajor(d, Len2(grid))

\* Lines 206-216: the BFS; q is the list used as a queue.
RECURSIVE Bfs(_, _, _, _)
Bfs(grid, rid, q, visited) ==
    IF q = <<>>
       THEN visited
       ELSE LET cell   == Head(q)
                nbrs   == Neighbours(cell[1], cell[2], Len2(grid))
                New(c) == c \notin visited /\ grid[c[1]][c[2]] = rid
                new    == SelectSeq(nbrs, New)
            IN Bfs(grid, rid, Tail(q) \o new, visited \cup SeqToSet(new))

\* Lines 204-225: the region's BFS reaches as many cells as the region has.
RegionPassesAlways(grid, rid) == TRUE

RegionPasses(grid, rid) ==
    Cardinality(Bfs(grid, rid, <<StartCell(grid, rid)>>, {StartCell(grid, rid)}))
        = Cardinality(CellsOf(grid, rid))

\* Lines 191-226: the loop over the region ids, left at the first region that
\* fails.
RECURSIVE CheckRegions(_, _)
CheckRegions(grid, todo) ==
    IF todo = {}
       THEN TRUE
       ELSE LET rid == CHOOSE r \in todo : \A o \in todo : r <= o
            IN IF ~RegionPasses(grid, rid)
                  THEN FALSE
                  ELSE CheckRegions(grid, todo \ {rid})

all_regions_connected(grid) == CheckRegions(grid, IdsOf(grid))

(***************************************************************************)
(* generator_cy.pyx: build_queen_board, generate_map                       *)
(***************************************************************************)
build_queen_board_mirrored(n, qs) ==
    [i \in Range(n) |-> [j \in Range(n) |-> IF j = n - 1 - qs[i] THEN "Q" ELSE "."]]

\* Lines 154-160.
build_queen_board(n, qs) ==
    [i \in Range(n) |-> [j \in Range(n) |-> IF j = qs[i] THEN "Q" ELSE "."]]

\* Lines 262-271: the ids of the regions holding exactly one cell.
Singletons(grid) == { rid \in IdsOf(grid) : Cardinality(CellsOf(grid, rid)) = 1 }

\* Lines 259-274: the candidate passes both tests.
AcceptedIgnoringSingletons(grid) == all_regions_connected(grid)

Accepted(grid) ==
    /\ all_regions_connected(grid)
    /\ ~(Cardinality(Singletons(grid)) > 1)

\* Line 275-276: the name given, or "random-" and six digits.
NameArgs == {"None", "given"}

MapNames(arg) == IF arg = "None" THEN {"random-000000", "random-999999"} ELSE {arg}

\* Lines 259-260 and 272-273: the candidate fails a test; the loop starts over
\* with a new random_n_queens call.
Reject ==
    /\ gpc = "validate"
    /\ ~Accepted(regions)
    /\ gpc' = "queens"
    /\ qstack' = <<QFrame(0, case_number)>>
    /\ solution' = [i \in Range(case_number) |-> None]
    /\ cols' = {}
    /\ diag1' = {}
    /\ diag2' = {}
    /\ sol' = <<>>
    /\ qret' = <<>>
    /\ queen_solution' = <<>>
    /\ regions' = <<>>
    /\ region_ids' = <<>>
    /\ queue' = <<>>
    /\ scan' = 0
    /\ enqueued' = <<>>
    /\ fallback' = FALSE
    /\ UNCHANGED <<countVars, gridVars, case_number, map_result>>

\* Lines 274-282: the candidate is accepted and returned.
Accept ==
    /\ gpc = "validate"
    /\ Accepted(regions)
    /\ \E arg \in NameArgs : \E name \in MapNames(arg) :
          map_result' = <<[name |-> name, caseNumber |-> case_number,
                           colorGrid |-> regions,
                           queenBoard |-> build_queen_board(case_number,
                              IF queen_solution = <<>> THEN <<>> ELSE queen_solution[1])]>>
    /\ gpc' = "returned"
    /\ UNCHANGED <<countVars, gridVars, case_number, queenVars, regionVars>>

NextGen ==
    \/ QBase
    \/ QConflict
    \/ QPlace
    \/ QResume
    \/ QLoopEnd
    \/ QReturn
    \/ Seed
    \/ Flood
    \/ FloodDone
    \/ PostProcess
    \/ RegionsReturn
    \/ Reject
    \/ Accept

SpecGen == InitGen /\ [][NextGen]_vars

(***************************************************************************)
(* random_n_queens called on its own.                                      *)
(***************************************************************************)
InitQueens ==
    /\ IdleCount
    /\ IdleGrids
    /\ case_number \in 0 .. MaxQueens
    /\ gpc = "queens"
    /\ QueensEntered(case_number)
    /\ RegionsEmpty
    /\ map_result = <<>>

NextQueens ==
    \/ QBase
    \/ QConflict
    \/ QPlace
    \/ QResume
    \/ QLoopEnd
    \/ QReturn

SpecQueens == InitQueens /\ [][NextQueens]_vars

(***************************************************************************)
(* generate_regions called on its own.  The classic N-Queens rule, stated  *)
(* on placements: no two rows share a column or a diagonal.                *)
(***************************************************************************)
ClassicQueens(p) ==
    \A r1, r2 \in DOMAIN p : r1 # r2 =>
        /\ p[r1] # p[r2]
        /\ r1 - p[r1] # r2 - p[r2]
        /\ r1 + p[r1] # r2 + p[r2]

\* The lists given as queen_solution: on boards up to MaxFullBoard every list
\* of n columns (generate_regions does not validate it), on larger boards the
\* classic N-Queens placements.
RegionInputs(n) ==
    { p \in [Range(n) -> Range(n)] : n <= MaxFullBoard \/ ClassicQueens(p) }

InitRegions ==
    /\ IdleCount
    /\ IdleGrids
    /\ case_number \in 1 .. MaxBoard
    /\ gpc = "regions"
    /\ qstack = <<>>
    /\ solution = <<>>
    /\ cols = {}
    /\ diag1 = {}
    /\ diag2 = {}
    /\ sol = <<>>
    /\ qret = <<>>
    /\ queen_solution \in { <<p>> : p \in RegionInputs(case_number) }
    /\ RegionsEmpty
    /\ map_result = <<>>

NextRegions ==
    \/ Seed
    \/ Flood
    \/ FloodDone
    \/ PostProcess
    \/ RegionsReturn

SpecRegions == InitRegions /\ [][NextRegions]_vars

(***************************************************************************)
(* Claims on the generator.                                                *)
(***************************************************************************)
\* random_n_queens has returned.
QueensReturned == gpc = "regions"

\* v is a list of exactly n column indices in 0..n-1.
IsPlacement(v, n) == DOMAIN v = Range(n) /\ \A r \in Range(n) : v[r] \in Range(n)

\* C4: for n >= 4, random_n_queens(n) returns a list of exactly n columns in
\* [0, n) in which every two distinct rows differ in column, in row - col and
\* in row + col.
C4_QueensPlacementValid ==
    (QueensReturned /\ case_number >= 4) =>
        /\ queen_solution # <<>>
        /\ IsPlacement(queen_solution[1], case_number)
        /\ ClassicQueens(queen_solution[1])

\* C4 witness: random_n_queens(4) returned the placement [2, 0, 3, 1].
C4_Witness ==
    /\ QueensReturned
    /\ case_number = 4
    /\ queen_solution = <<[r \in Range(4) |-> <<2, 0, 3, 1>>[r + 1]]>>

\* C5: for n = 2 and n = 3 random_n_queens(n) returns None after the outermost
\* _backtrack returned False; for no n does it return a list with an unfilled
\* row or with queens in conflict.
C5_NoPartialPlacement ==
    QueensReturned =>
        /\ case_number \in {2, 3} => (queen_solution = <<>> /\ qret = <<FALSE>>)
        /\ queen_solution # <<>> =>
              (IsPlacement(queen_solution[1], case_number) /\ ClassicQueens(queen_solution[1]))

\* C5 witness: random_n_queens(3) returned None while its working list still
\* holds queens of abandoned attempts.
C5_Witness ==
    /\ QueensReturned
    /\ case_number = 3
    /\ queen_solution = <<>>
    /\ \E r \in Range(case_number) : solution[r] # None

\* generate_regions has returned.
RegionsReturned == gpc = "validate"

\* C6: the grid generate_regions returns is an n x n matrix whose every cell
\* holds an id of 0..n-1; no cell is left None.
C6_GridTotal ==
    RegionsReturned =>
        /\ DOMAIN regions = Range(case_number)
        /\ \A i \in Range(case_number) :
              /\ DOMAIN regions[i] = Range(case_number)
              /\ \A j \in Range(case_number) : regions[i][j] \in Range(case_number)

\* C6 witness: generate_regions returned for a classic placement on a board of
\* 4 rows, every cell holding an id and one region holding 5 or more cells.
C6_Witness ==
    /\ RegionsReturned
    /\ case_number = 4
    /\ ClassicQueens(queen_solution[1])
    /\ \E id \in Range(4) : Cardinality(CellsOf(regions, id)) >= 5
    /\ \A c \in Cells(case_number) : regions[c[1]][c[2]] \in Range(case_number)

\* The number of regions of grid with exactly one cell.
SingleCellRegions(grid) ==
    Cardinality({ id \in IdsOf(grid) : Cardinality(CellsOf(grid, id)) = 1 })

CellSeq(n) == [k \in 1 .. n * n |-> <<(k - 1) \div n, (k - 1) % n>>]

\* Lines 307-315: the coordinate list of one id, appended in loop order and
\* sorted (a list of (i, j) pairs sorts into row-major order).
CoordList(g, rid) ==
    LET Has(c) == g[c[1]][c[2]] = rid
    IN SelectSeq(CellSeq(Len2(g)), Has)

\* Lines 303-315: the dict from id to sorted coordinate list, over the n x n
\* cells with n = len(g1).
GroupById(g, n) ==
    LET ids == { g[c[1]][c[2]] : c \in Cells(n) }
    IN [rid \in ids |-> CoordList(g, rid)]

\* are_grids_same comparing the coordinate lists without their ids.
are_grids_same_shapes(a, b) ==
    IF Len2(a) # Len2(b)
       THEN FALSE
       ELSE { GroupById(a, Len2(a))[k] : k \in DOMAIN GroupById(a, Len2(a)) }
              = { GroupById(b, Len2(a))[k] : k \in DOMAIN GroupById(b, Len2(a)) }

\* Lines 300-316.
are_grids_same(a, b) ==
    IF Len2(a) # Len2(b)
       THEN FALSE
       ELSE GroupById(a, Len2(a)) = GroupById(b, Len2(a))

\* The grids given: every n x n grid over the ids 0..MaxId, n up to MaxGridN.
TestGrids == UNION { [Range(n) -> [Range(n) -> 0 .. MaxId]] : n \in 1 .. MaxGridN }

\* The renamings of region ids: every injective map of 0..MaxId into itself.
Renamings == Shuffles(MaxId + 1)

Renamed(g, f) == [i \in DOMAIN g |-> [j \in DOMAIN g[i] |-> f[g[i][j]]]]

\* The grid without its last row and column.
Shrunk(g) == [i \in Range(Len2(g) - 1) |-> [j \in Range(Len2(g) - 1) |-> g[i][j]]]

InitGrids ==
    /\ IdleCount
    /\ IdleGen
    /\ g1 \in TestGrids
    /\ g2 = g1
    /\ tpc = "start"
    /\ connected = <<>>
    /\ same = <<>>

\* all_regions_connected(g1) is called and returns.
CheckConnected ==
    /\ tpc = "start"
    /\ connected' = <<all_regions_connected(g1)>>
    /\ tpc' = "checked"
    /\ UNCHANGED <<countVars, genVars, g1, g2, same>>

\* are_grids_same(g1, g2) is called with g2 a renaming of g1 (the identity
\* renaming gives g1 itself) and returns.
CompareRenamed ==
    /\ tpc = "checked"
    /\ \E f \in Renamings :
          /\ g2' = Renamed(g1, f)
          /\ same' = <<are_grids_same(g1, g2')>>
    /\ tpc' = "compared"
    /\ UNCHANGED <<countVars, genVars, g1, connected>>

\* are_grids_same(g1, g2) is called with a grid of another size and returns.
CompareShrunk ==
    /\ tpc = "checked"
    /\ g2' = Shrunk(g1)
    /\ same' = <<are_grids_same(g1, g2')>>
    /\ tpc' = "compared"
    /\ UNCHANGED <<countVars, genVars, g1, connected>>

NextGrids ==
    \/ CheckConnected
    \/ CompareRenamed
    \/ CompareShrunk

SpecGrids == InitGrids /\ [][NextGrids]_vars

\* Two cells are 4-neighbours.
Adjacent4(a, b) ==
    \/ (a[1] = b[1] /\ (a[2] - b[2] = 1 \/ b[2] - a[2] = 1))
    \/ (a[2] = b[2] /\ (a[1] - b[1] = 1 \/ b[1] - a[1] = 1))

\* The cells of `cells` reachable from the cells of s by steps between
\* 4-neighbours inside `cells`.
RECURSIVE Reach(_, _)
Reach(cells, s) ==
    LET grown == s \cup { c \in cells : \E b \in s : Adjacent4(b, c) }
    IN IF grown = s THEN s ELSE Reach(cells, grown)

\* The cells bearing id form one 4-connected component: from each of them
\* every other one is reached.
OneComponent(grid, id) ==
    \A a \in CellsOf(grid, id) : Reach(CellsOf(grid, id), {a}) = CellsOf(grid, id)

\* C8: all_regions_connected(grid) is true exactly when the cells of every
\* region id present in the grid form a single 4-connected component.
C8_ConnectedIffOneComponentEach ==
    tpc = "checked" =>
        (connected[1] <=> \A id \in IdsOf(g1) : OneComponent(g1, id))

\* C8 witness: all_regions_connected returned false on a 3 x 3 grid in which
\* the region of the smallest id is connected and a later one is not.
C8_Witness ==
    /\ tpc = "checked"
    /\ Len2(g1) = 3
    /\ connected = <<FALSE>>
    /\ OneComponent(g1, 0)
    /\ 0 \in IdsOf(g1)

\* A renaming that changes at least one id used in g.
ChangesUsedId(g, f) == \E id \in IdsOf(g) : f[id] # id

\* C9: are_grids_same(g, g) is true, and are_grids_same(g, g renamed) is false
\* for every injective renaming that changes an id g uses.
C9_ReflexiveAndLabelSensitive ==
    (tpc = "compared" /\ Len2(g2) = Len2(g1)) =>
        /\ g2 = g1 => same = <<TRUE>>
        /\ \A f \in Renamings :
              (g2 = Renamed(g1, f) /\ ChangesUsedId(g1, f)) => same = <<FALSE>>

\* C9 witness: a 3 x 3 grid of three regions compared with itself under a
\* renaming that swaps two of its ids; the shapes are the same, the result is
\* false.
C9_Witness ==
    /\ tpc = "compared"
    /\ Len2(g1) = 3
    /\ IdsOf(g1) = 0 .. 2
    /\ IdsOf(g2) = IdsOf(g1)
    /\ \E f \in Renamings : ChangesUsedId(g1, f) /\ g2 = Renamed(g1, f)
    /\ same = <<FALSE>>

(***************************************************************************)
(* solver_cy.pyx: the record of solve, the budget of the frames, the       *)
(* used table.                                                             *)
(***************************************************************************)
\* C11: for a grid whose ids index the table, a name and a threshold >= 1,
\* solve returns a record with the given name, number_solution equal to the
\* count count_valid_solutions returned, number_possibility None, and solvable
\* true exactly when a placement satisfying the extended ruleset exists.
C11_SolveRecord ==
    (cpc = "solved" /\ threshold >= 1 /\ InRange(grid_arr)) =>
        /\ solve_result # <<>>
        /\ DOMAIN solve_result[1] = {"name", "solvable", "number_solution", "number_possibility"}
        /\ solve_result[1].name = solve_name
        /\ solve_result[1].number_solution = result[1]
        /\ solve_result[1].number_solution = count_valid_solutions(grid_arr, threshold)
        /\ solve_result[1].number_possibility = "None"
        /\ solve_result[1].solvable <=> (TrueCount(grid_arr) >= 1)

\* C11 witness: solve returned for the name "map-b" and threshold 1 on a grid
\* with more placements than the threshold, the search having been pruned, and
\* reports solvable.
C11_Witness ==
    /\ cpc = "solved"
    /\ threshold = 1
    /\ InRange(grid_arr)
    /\ solve_name = "map-b"
    /\ TrueCount(grid_arr) > result[1]
    /\ solve_result[1].solvable

\* The sum of a sequence of counts.
RECURSIVE SumSeq(_)
SumSeq(q) == IF q = <<>> THEN 0 ELSE Head(q) + SumSeq(Tail(q))

\* C12: in a call of count_valid_solutions with a threshold >= 0 on a grid
\* whose ids index the table:
\*  - a frame that is still in its loop has a running total, the sum of the
\*    counts its earlier columns returned, that does not exceed its budget;
\*  - the frame entered by a recursive call has the caller's budget minus the
\*    sum of the counts returned to the caller so far;
\*  - when a count returned to a frame brings its total above its budget, the
\*    frame returns that total at once; otherwise it goes on to the next column.
C12_BudgetShrinksAndPrunes ==
    /\ []((cpc = "running" /\ threshold >= 0 /\ InRange(grid_arr)) =>
             \A k \in 1 .. Len(stack) :
                /\ stack[k].count = SumSeq(stack[k].returned)
                /\ stack[k].count <= stack[k].threshold)
    /\ [][(cpc = "running" /\ threshold >= 0 /\ InRange(grid_arr)) =>
             /\ Len(stack') = Len(stack) + 1 =>
                   stack'[Len(stack')].threshold
                       = Top.threshold - SumSeq(Top.returned)
             /\ (ret # <<>> /\ stack # <<>>) =>
                   IF SumSeq(Top.returned) + ret[1] > Top.threshold
                      THEN /\ stack' = Pop
                           /\ ret' = <<SumSeq(Top.returned) + ret[1]>>
                      ELSE /\ Len(stack') = Len(stack)
                           /\ ret' = <<>>
                           /\ stack'[Len(stack)].col = Top.col + 1
                           /\ stack'[Len(stack)].returned = Append(Top.returned, ret[1])
          ]_vars

\* C12 witness: a frame to which an earlier column returned a count of 1 or
\* more has called _backtrack for a later column with a smaller budget.
C12_Witness ==
    /\ cpc = "running"
    /\ threshold >= 1
    /\ InRange(grid_arr)
    /\ \E k \in 1 .. Len(stack) - 1 :
          /\ SumSeq(stack[k].returned) >= 1
          /\ stack[k + 1].threshold = stack[k].threshold - SumSeq(stack[k].returned)

\* The queens placed by the k outermost frames: frame j holds the queen of row
\* stack[j].row at column stack[j].col while its recursive call is active.
QueenIds(k) == { grid_arr[stack[j].row][stack[j].col] : j \in 1 .. k }

QueenCols(k) == { stack[j].col : j \in 1 .. k }

\* The bitmask with exactly the bits of the set cs.
RECURSIVE MaskOf(_)
MaskOf(cs) ==
    IF cs = {}
       THEN 0
       ELSE LET c == CHOOSE x \in cs : TRUE IN Pow2(c) + MaskOf(cs \ {c})

\* C13: on a grid whose ids index the table,
\*  - while a frame for row r is entered or in its loop, the used table is true
\*    exactly at the ids of the r queens placed in rows 0..r-1, which are
\*    pairwise distinct, and the frame's bitmask has exactly their columns;
\*  - when a frame has just returned (normally or by the prune return), the
\*    table is true exactly at the ids of the queens of the rows above it and
\*    of its caller's queen, which is its value at that frame's entry;
\*  - the table is all-false when count_valid_solutions returns.
C13_UsedTableRestored ==
    InRange(grid_arr) =>
        /\ (cpc = "running" /\ ret = <<>> /\ stack # <<>>) =>
              /\ \A j \in 1 .. Len(stack) : stack[j].row = j - 1
              /\ used_blocks = QueenIds(Len(stack) - 1)
              /\ Cardinality(used_blocks) = Len(stack) - 1
              /\ Cardinality(QueenCols(Len(stack) - 1)) = Len(stack) - 1
              /\ Top.used_cols = MaskOf(QueenCols(Len(stack) - 1))
        /\ (cpc = "running" /\ ret # <<>>) =>
              /\ used_blocks = QueenIds(Len(stack))
              /\ Cardinality(used_blocks) = Len(stack)
        /\ Counted => used_blocks = {}

\* C13 witness: with a threshold >= 1, the frame of row 3 has just left its
\* loop by the prune return, the three queens above it still marked.
C13_Witness ==
    /\ cpc = "running"
    /\ threshold >= 1
    /\ InRange(grid_arr)
    /\ ret # <<>>
    /\ Len(stack) = 3
    /\ ret[1] > Top.threshold - Top.count
    /\ Cardinality(used_blocks) = 3

\* The smaller of two integers.
Min(a, b) == IF a <= b THEN a ELSE b

\* C16: for a grid whose ids index the table and a threshold >= 0, the count
\* returned is min(T, threshold + 1), T being the number of placements that
\* satisfy the extended ruleset.
C16_CountIsMinOfTrueCountAndCap ==
    (Counted /\ threshold >= 0 /\ InRange(grid_arr)) =>
        result[1] = Min(TrueCount(grid_arr), threshold + 1)

\* C16 witness: on the 5 x 5 grid of 25 distinct ids, which has 14 placements,
\* the call with threshold 2 returned 3.
C16_Witness ==
    /\ cpc = "counted"
    /\ N = 5
    /\ Cardinality(IdsOf(grid_arr)) = 25
    /\ TrueCount(grid_arr) = 14
    /\ threshold = 2
    /\ result = <<3>>

(***************************************************************************)
(* generator_cy.pyx: generate_regions, its phases.                         *)
(***************************************************************************)
\* generate_regions has seeded its grid and has not been left for a new attempt.
InRegions == gpc \in {"flood", "post", "validate"}

\* C14: during generate_regions a cell that holds an id keeps it; the queen
\* cell of row i holds region_ids[i], region_ids being a permutation of
\* 0..n-1, so the n queen cells hold n distinct ids; and the returned grid
\* holds every id of 0..n-1.
C14_AssignedIdsNeverChange ==
    /\ [](InRegions =>
             /\ region_ids \in Shuffles(case_number)
             /\ \A i \in Range(case_number) :
                   regions[i][queen_solution[1][i]] = region_ids[i]
             /\ Cardinality({ regions[i][queen_solution[1][i]] : i \in Range(case_number) })
                   = case_number
             /\ gpc = "validate" => \A id \in Range(case_number) : id \in IdsOf(regions))
    /\ [][(gpc \in {"flood", "post"}) =>
             \A c \in Cells(case_number) :
                regions[c[1]][c[2]] # None => regions'[c[1]][c[2]] = regions[c[1]][c[2]]
          ]_vars

\* C14 witness: generate_regions returned a 3 x 3 grid after flood-fill claims
\* and a post-processing fallback, the three queen cells holding three ids.
C14_Witness ==
    /\ gpc = "validate"
    /\ case_number = 3
    /\ Len(enqueued) > 3
    /\ fallback
    /\ Cardinality({ regions[i][queen_solution[1][i]] : i \in Range(3) }) = 3

\* The flood-fill phase of generate_regions on its own, from the call to the
\* exit of the while loop; the program keeps taking steps.
NextFlood ==
    \/ Seed
    \/ Flood
    \/ FloodDone

SpecFlood == InitRegions /\ [][NextFlood]_vars /\ WF_vars(NextFlood)

\* The cells of the deque's entries, in order.
QueueCells == [k \in 1 .. Len(queue) |-> <<queue[k][1], queue[k][2]>>]

\* The number of cells taken from the deque so far.
Dequeues == Len(enqueued) - Len(queue)

\* C15: in the flood-fill loop every cell is enqueued at most once: a cell
\* entering the deque was unassigned until the step that claims it, the deque
\* is what remains of the cells enqueued after the dequeues so far, at most
\* n * n cells are ever enqueued and dequeued; and the loop is left.
C15_FloodFillTerminates ==
    /\ []((gpc = "flood") =>
             /\ \A a, b \in 1 .. Len(enqueued) : a # b => enqueued[a] # enqueued[b]
             /\ \A a \in 1 .. Len(enqueued) : regions[enqueued[a][1]][enqueued[a][2]] # None
             /\ Dequeues >= 0
             /\ Dequeues <= case_number * case_number
             /\ QueueCells = SubSeq(enqueued, Dequeues + 1, Len(enqueued)))
    /\ [][(gpc = "flood" /\ gpc' = "flood") =>
             /\ Len(queue) >= 1
             /\ Len(enqueued') - Len(queue') = Dequeues + 1
             /\ \A a \in Len(enqueued) + 1 .. Len(enqueued') :
                   /\ regions[enqueued'[a][1]][enqueued'[a][2]] = None
                   /\ regions'[enqueued'[a][1]][enqueued'[a][2]] = queue[1][3]
          ]_vars
    /\ (gpc = "flood") ~> (gpc = "post" /\ queue = <<>>)

\* C15 witness: the loop was left on a 3 x 3 board after claims, with cells
\* still unassigned.
C15_Witness ==
    /\ gpc = "post"
    /\ case_number = 3
    /\ queue = <<>>
    /\ Len(enqueued) > 3
    /\ Len(enqueued) < 9
    /\ \E c \in Cells(3) : regions[c[1]][c[2]] = None

(***************************************************************************)
(* generator_cy.pyx: the map returned and its own queens.                  *)
(***************************************************************************)
\* C17: for n >= 1, in the map generate_map returns, queenBoard has in each
\* row exactly one "Q", at the column of the placement that seeded colorGrid;
\* the n queens are in distinct columns, more than one column apart in
\* adjacent rows and in n distinct regions of colorGrid; and
\* count_valid_solutions(colorGrid, t) >= 1 for the thresholds t >= 1.
C17_MapSolvableByItsQueens ==
    (gpc = "returned" /\ case_number >= 1) =>
        LET m  == map_result[1]
            qs == queen_solution[1]
        IN /\ DOMAIN m.queenBoard = Range(case_number)
           /\ \A i \in Range(case_number) :
                 /\ DOMAIN m.queenBoard[i] = Range(case_number)
                 /\ \A j \in Range(case_number) :
                       m.queenBoard[i][j] = (IF j = qs[i] THEN "Q" ELSE ".")
                 /\ Cardinality({ j \in Range(case_number) : m.queenBoard[i][j] = "Q" }) = 1
                 /\ m.colorGrid[i][qs[i]] = region_ids[i]
           /\ DistinctColumns(qs)
           /\ AdjacentRowsApart(qs)
           /\ DistinctRegions(m.colorGrid, qs)
           /\ \A t \in 1 .. MaxThreshold : count_valid_solutions(m.colorGrid, t) >= 1

\* C17 witness: generate_map(4) returned a map whose queenBoard has its queens
\* at columns 2, 0, 3, 1 and whose colorGrid has more than one placement.
C17_Witness ==
    /\ gpc = "returned"
    /\ case_number = 4
    /\ \A i \in Range(4) : map_result[1].queenBoard[i][<<2, 0, 3, 1>>[i + 1]] = "Q"
    /\ count_valid_solutions(map_result[1].colorGrid, 1) = 2

\* The seed cell of row i.
SeedCell(i) == <<i, queen_solution[1][i]>>

\* C18: at every step of the flood fill the cells holding an id form one
\* 4-connected component that contains the id's seed (each of them is reached
\* from the seed through 4-neighbours holding the id); and as long as
\* post-processing has not given a cell a random id (line 135), the same
\* holds during post-processing and all_regions_connected is true on the grid
\* returned.
C18_RegionsStayConnected ==
    /\ (gpc = "flood" \/ (gpc \in {"post", "validate"} /\ ~fallback)) =>
          \A i \in Range(case_number) :
             LET held == CellsOf(regions, region_ids[i])
             IN /\ SeedCell(i) \in held
                /\ Reach(held, {SeedCell(i)}) = held
    /\ (gpc = "validate" /\ ~fallback) => all_regions_connected(regions)

\* C18 witness: generate_regions returned a 3 x 3 grid, part of it claimed by
\* the flood fill and the rest filled from assigned neighbours, no cell
\* having taken the random id; every region is connected.
C18_Witness ==
    /\ gpc = "validate"
    /\ case_number = 3
    /\ ~fallback
    /\ Len(enqueued) > 3
    /\ Len(enqueued) < 9
    /\ all_regions_connected(regions)

====
